---- MODULE Spec2Model ----
(***************************************************************************)
(* Model of src/abstract.py: the submission poller watch_submit_time, the  *)
(* fold generators of ABSDataSplitter, and the pipelines of ABSSubmitter   *)
(* and CodeSubmitter together with the object constructors they rely on.   *)
(***************************************************************************)
EXTENDS Integers, Sequences, FiniteSets, TLC

VARIABLES
    \* ---- watch_submit_time ----
    remote,              \* the submission list the remote service currently holds
    latest_ref,          \* local latest_ref (0 before line 41 has run)
    result,              \* local result of the for loop (NoResult while unbound)
    status,              \* local status
    list_of_submission,  \* local list_of_submission: the response of the last poll
    wpc,                 \* position: "init", "loop", "done", "error"
    polls,               \* number of in-loop calls of api.competition_submissions
    sleeps,              \* number of calls of time.sleep(60)
    \* ---- ABSDataSplitter.k_fold / group_k_fold ----
    method,              \* the generator being consumed: "k_fold", "group_k_fold", "none"
    df,                  \* the data frame: a sequence of rows [id, group]
    n_splits,            \* self.n_splits
    shuffled,            \* the order KFold's seeded shuffle gives the sample indices
    folds,               \* the (train, valid) pairs yielded so far
    spc,                 \* position of the generator: "run", "done", "error", "idle"
    \* ---- ABSDataPostprocessor, ABSSubmitter, CodeSubmitter ----
    op,                  \* what the run does: "postprocessor" (constructs an
                         \* ABSDataPostprocessor), "make_submission", "experiment"
                         \* (construct a submitter and call the method)
    names,               \* class attributes competition_name and experiment_name
    args,                \* dry_run, return_only, retrain_all_data, save_model
    pc,                  \* the stage to run next, or "returned" / "error"
    cached,              \* what _load_features() gave: "loaded", "not_loaded"
                         \* ("unknown" before)
    log,                 \* the stages that ran and finished, in order
    failedAt,            \* the stage that raised ("none" if none did)
    errKind,             \* the kind of the error that ended the run
    errOrigin,           \* "raise": a raise statement of the module; "call": the
                         \* interpreter, on a call or attribute of the module;
                         \* "external": library or subclass code
    swallowed,           \* the except clauses that caught an error
    api,                 \* self.api: "unset", "KaggleApi", "None"
    run_public_score,    \* the public_score metric of the registered run
    returned             \* what the method returned

watchVars == <<remote, latest_ref, result, status, list_of_submission, wpc, polls, sleeps>>

splitVars == <<method, df, n_splits, shuffled, folds, spc>>

submitVars == <<op, names, args, pc, cached, log, failedAt, errKind, errOrigin,
                swallowed, api, run_public_score, returned>>

vars == <<watchVars, splitVars, submitVars>>

----------------------------------------------------------------------------
(* Bounds *)
MaxRefs  == 2    \* submission refs are 1..MaxRefs
MaxList  == 2    \* longest submission list the service returns
MaxPolls == 3    \* polls of one run of watch_submit_time
MaxRows   == 4   \* rows of a data frame
MaxGroups == 3   \* distinct values of the group column
MaxSplits == 3   \* largest n_splits

----------------------------------------------------------------------------
(* watch_submit_time                                                       *)

Refs == 1..MaxRefs

\* The code tells "complete" from every other status; "pending" stands for
\* all the others.
Statuses == {"pending", "complete"}

Submission == [ref : Refs, status : Statuses]

\* The responses of api.competition_submissions: lists of submissions with
\* distinct refs, the empty list included.
SubmissionLists ==
    UNION { { l \in [1..n -> Submission] :
                \A i, j \in 1..n : i # j => l[i].ref # l[j].ref } : n \in 0..MaxList }

\* The for-loop variable before its first binding.
NoResult == [ref |-> 0, status |-> "unbound"]

\* Lines 47-49: `for result in list: if str(result.ref) == latest_ref: break`.
\* The loop variable ends on the first match; without a match it ends on the
\* last element; over an empty list it keeps its previous binding.
\* (str(result_) of line 41 is the submission's ref: the API's Submission
\* object prints as str(self.ref).)
ForLoopResult(list, ref, prev) ==
    IF \E i \in 1..Len(list) : list[i].ref = ref
    THEN list[CHOOSE i \in 1..Len(list) :
                 /\ list[i].ref = ref
                 /\ \A j \in 1..(i - 1) : list[j].ref # ref]
    ELSE IF Len(list) > 0 THEN list[Len(list)] ELSE prev

\* Line 45: the loop condition.
LoopCondition(st) == st # "complete"

\* A variant of ShouldSleep that sleeps after every poll.
ShouldSleep_EveryPoll(st) == TRUE

\* Lines 54-58: the branch that sleeps.
ShouldSleep(st) == st # "complete"

WatchIdle ==
    /\ remote = <<>>
    /\ latest_ref = 0
    /\ result = NoResult
    /\ status = ""
    /\ list_of_submission = <<>>
    /\ wpc = "idle"
    /\ polls = 0
    /\ sleeps = 0

SplitIdle ==
    /\ method = "none"
    /\ df = <<>>
    /\ n_splits = 0
    /\ shuffled = <<>>
    /\ folds = <<>>
    /\ spc = "idle"

NoArgs == [dry_run |-> FALSE, return_only |-> FALSE,
           retrain_all_data |-> FALSE, save_model |-> FALSE]

SubmitIdle ==
    /\ op = "none"
    /\ names = [competition_name |-> "", experiment_name |-> ""]
    /\ args = NoArgs
    /\ pc = "idle"
    /\ cached = "unknown"
    /\ log = <<>>
    /\ failedAt = "none"
    /\ errKind = "none"
    /\ errOrigin = "none"
    /\ swallowed = {}
    /\ api = "unset"
    /\ run_public_score = "unset"
    /\ returned = "nothing"

WatchInit ==
    /\ SplitIdle
    /\ SubmitIdle
    /\ remote \in SubmissionLists
    /\ latest_ref = 0
    /\ result = NoResult
    /\ status = ""
    /\ list_of_submission = <<>>
    /\ wpc = "init"
    /\ polls = 0
    /\ sleeps = 0

\* The remote service changes its list (new submissions, status changes).
RemoteUpdate ==
    /\ wpc \in {"init", "loop"}
    /\ polls < MaxPolls
    /\ remote' \in SubmissionLists \ {remote}
    /\ UNCHANGED <<latest_ref, result, status, list_of_submission, wpc, polls, sleeps>>
    /\ UNCHANGED <<splitVars, submitVars>>

\* Lines 37-43: the first query; [0] of an empty list raises IndexError.
WatchStart ==
    /\ wpc = "init"
    /\ IF remote = <<>>
       THEN /\ wpc' = "error"
            /\ UNCHANGED <<latest_ref, status>>
       ELSE /\ latest_ref' = remote[1].ref
            /\ status' = ""
            /\ wpc' = "loop"
    /\ UNCHANGED <<remote, result, list_of_submission, polls, sleeps>>
    /\ UNCHANGED <<splitVars, submitVars>>

\* Lines 45-58: one iteration of the loop body. Reading result.status while
\* result is unbound raises UnboundLocalError.
WatchIterate ==
    /\ wpc = "loop"
    /\ LoopCondition(status)
    /\ polls < MaxPolls
    /\ list_of_submission' = remote
    /\ polls' = polls + 1
    /\ LET r == ForLoopResult(remote, latest_ref, result) IN
         IF r = NoResult
         THEN /\ wpc' = "error"
              /\ UNCHANGED <<result, status, sleeps>>
         ELSE /\ result' = r
              /\ status' = r.status
              /\ sleeps' = IF ShouldSleep(r.status) THEN sleeps + 1 ELSE sleeps
              /\ wpc' = "loop"
    /\ UNCHANGED <<remote, latest_ref>>
    /\ UNCHANGED <<splitVars, submitVars>>

\* Line 45: the loop condition fails and the function returns.
WatchExit ==
    /\ wpc = "loop"
    /\ ~LoopCondition(status)
    /\ wpc' = "done"
    /\ UNCHANGED <<remote, latest_ref, result, status, list_of_submission, polls, sleeps>>
    /\ UNCHANGED <<splitVars, submitVars>>

WatchNext == RemoteUpdate \/ WatchStart \/ WatchIterate \/ WatchExit

\* The function's own steps are taken whenever they can be: it is the only
\* thread and nothing but its own sleep delays it.
WatchSpec ==
    /\ WatchInit
    /\ [][WatchNext]_vars
    /\ WF_vars(WatchStart \/ WatchIterate \/ WatchExit)

----------------------------------------------------------------------------
(* Claims about watch_submit_time                                          *)

\* The remote service reports the watched submission as complete.
WatchedReportedComplete ==
    /\ latest_ref # 0
    /\ \E i \in 1..Len(remote) :
          remote[i].ref = latest_ref /\ remote[i].status = "complete"

\* The last poll's response listed the watched submission as complete.
PollSawWatchedComplete ==
    /\ wpc = "loop"
    /\ polls > 0
    /\ \E i \in 1..Len(list_of_submission) :
          /\ list_of_submission[i].ref = latest_ref
          /\ list_of_submission[i].status = "complete"

\* The loop has returned only after observing "complete".
ExitOnlyOnComplete == wpc = "done" => status = "complete"

\* One sleep per poll that observed a non-complete status, none after the
\* poll that observed "complete".
SleepPerPendingPoll ==
    wpc \in {"loop", "done"} =>
        sleeps = polls - (IF status = "complete" THEN 1 ELSE 0)

\* C2: watch_submit_time is a polling loop that terminates once the remote
\* service reports the watched submission complete: a poll that sees it
\* complete leads to the loop's exit, and if the service reports it complete
\* from some point on the function ends; the loop exits only on a poll that
\* observed "complete"; it sleeps exactly once after every poll that observed
\* a non-complete status and never after the poll that observed "complete".
C2_PollingLoopTerminates ==
    /\ []ExitOnlyOnComplete
    /\ []SleepPerPendingPoll
    /\ (PollSawWatchedComplete ~> (wpc = "done"))
    /\ (<>[]WatchedReportedComplete => <>(wpc \in {"done", "error"}))

\* Witness of C2: the loop slept after a non-complete poll and then exited
\* on the poll that observed "complete".
C2_Witness ==
    /\ wpc = "done"
    /\ sleeps >= 1
    /\ polls = sleeps + 1
    /\ status = "complete"
    /\ result.ref = latest_ref

\* C9: on every poll the status that decides the loop is the status the
\* response gives for the watched submission (the first of the list when the
\* function started), never that of another submission.
C9_AsStated ==
    (wpc \in {"loop", "done"} /\ polls > 0) =>
        \E i \in 1..Len(list_of_submission) :
            /\ list_of_submission[i].ref = latest_ref
            /\ status = list_of_submission[i].status

----------------------------------------------------------------------------
(* ABSDataSplitter.k_fold and group_k_fold                                 *)

Range(s) == { s[i] : i \in 1..Len(s) }

\* An index set as the ascending index array numpy builds from a mask.
RECURSIVE Ascending(_)
Ascending(S) ==
    IF S = {} THEN <<>>
    ELSE LET m == CHOOSE x \in S : \A y \in S : x <= y
         IN  <<m>> \o Ascending(S \ {m})

Row == [id : 1..MaxRows, group : 1..MaxGroups]

\* Data frames of up to MaxRows rows; a row's id is its position.
DataFrames ==
    UNION { { d \in [1..n -> Row] : \A i \in 1..n : d[i].id = i } : n \in 0..MaxRows }

\* Frames whose group column is constant: what k_fold, which reads no
\* column, is run on.
PlainFrames == { d \in DataFrames : \A i \in 1..Len(d) : d[i].group = 1 }

ShuffleOrders(n) ==
    { p \in [1..n -> 1..n] : \A i, j \in 1..n : i # j => p[i] # p[j] }

\* Line 154: df[group_col].unique(), the values in order of first appearance.
RECURSIVE Unique(_)
Unique(col) ==
    IF col = <<>> THEN <<>>
    ELSE LET rest == Unique(SubSeq(col, 1, Len(col) - 1))
             x    == col[Len(col)]
         IN  IF x \in Range(rest) THEN rest ELSE Append(rest, x)

GroupColumn(d) == [i \in 1..Len(d) |-> d[i].group]

\* Lines 145/153: KFold(n_splits, shuffle=True, random_state=SEED).split(X)
\* raises ValueError when n_splits < 2 or n_splits exceeds the sample count.
KFoldAccepts(k, n) == k >= 2 /\ k <= n

\* A variant of FoldSize that drops the remainder n % k.
FoldSize_NoRemainder(n, k, i) == n \div k

\* KFold's fold sizes: n // k each, the first n % k folds one more.
FoldSize(n, k, i) == (n \div k) + (IF i <= n % k THEN 1 ELSE 0)

RECURSIVE FoldStart(_, _, _)
FoldStart(n, k, i) ==
    IF i <= 1 THEN 0 ELSE FoldStart(n, k, i - 1) + FoldSize(n, k, i - 1)

\* Lines 146/155: the i-th (train_index, valid_index) of KFold.split over n
\* samples shuffled into the order perm: the valid indices are the i-th
\* slice of the shuffled indices, the train indices all the others, each as
\* an ascending index array.
KFoldSplit(n, k, perm, i) ==
    LET test == { perm[j] : j \in (FoldStart(n, k, i) + 1)..(FoldStart(n, k, i) + FoldSize(n, k, i)) }
    IN  [train_index |-> Ascending((1..n) \ test),
         valid_index |-> Ascending(test)]

\* Lines 147-148: df.iloc[index].
Iloc(d, index) == [i \in 1..Len(index) |-> d[index[i]]]

\* A variant of GroupsAt that takes the indices themselves for group values.
GroupsAt_Indices(groups, index) == { index[i] : i \in 1..Len(index) }

\* groups[index] of lines 156-157, as the set isin() tests against.
GroupsAt(groups, index) == { groups[index[i]] : i \in 1..Len(index) }

\* Lines 156-157: df[df[group_col].isin(values)].
IsinMask(d, values) == SelectSeq(d, LAMBDA r : r.group \in values)

\* Lines 146-149: the i-th pair k_fold yields.
KFoldPair(d, k, perm, i) ==
    LET s == KFoldSplit(Len(d), k, perm, i)
    IN  [train |-> Iloc(d, s.train_index), valid |-> Iloc(d, s.valid_index)]

\* Lines 154-158: the i-th pair group_k_fold yields.
GroupKFoldPair(d, k, perm, i) ==
    LET groups == Unique(GroupColumn(d))
        s      == KFoldSplit(Len(groups), k, perm, i)
    IN  [train |-> IsinMask(d, GroupsAt(groups, s.train_index)),
         valid |-> IsinMask(d, GroupsAt(groups, s.valid_index))]

\* What KFold.split is run over: the rows (k_fold) or the groups.
Samples(m, d) == IF m = "k_fold" THEN Len(d) ELSE Len(Unique(GroupColumn(d)))

SplitInit ==
    /\ WatchIdle
    /\ SubmitIdle
    /\ method \in {"k_fold", "group_k_fold"}
    /\ df \in (IF method = "k_fold" THEN PlainFrames ELSE DataFrames)
    /\ n_splits \in 1..MaxSplits
    /\ shuffled \in ShuffleOrders(Samples(method, df))
    /\ folds = <<>>
    /\ spc = "run"

\* Lines 144-149: one next() on the generator k_fold returns.
k_fold ==
    /\ method = "k_fold"
    /\ spc = "run"
    /\ IF ~KFoldAccepts(n_splits, Len(df))
       THEN spc' = "error" /\ UNCHANGED folds
       ELSE IF Len(folds) < n_splits
       THEN /\ folds' = Append(folds, KFoldPair(df, n_splits, shuffled, Len(folds) + 1))
            /\ UNCHANGED spc
       ELSE spc' = "done" /\ UNCHANGED folds
    /\ UNCHANGED <<method, df, n_splits, shuffled>>
    /\ UNCHANGED <<watchVars, submitVars>>

\* Lines 151-158: one next() on the generator group_k_fold returns.
group_k_fold ==
    /\ method = "group_k_fold"
    /\ spc = "run"
    /\ IF ~KFoldAccepts(n_splits, Len(Unique(GroupColumn(df))))
       THEN spc' = "error" /\ UNCHANGED folds
       ELSE IF Len(folds) < n_splits
       THEN /\ folds' = Append(folds, GroupKFoldPair(df, n_splits, shuffled, Len(folds) + 1))
            /\ UNCHANGED spc
       ELSE spc' = "done" /\ UNCHANGED folds
    /\ UNCHANGED <<method, df, n_splits, shuffled>>
    /\ UNCHANGED <<watchVars, submitVars>>

SplitNext == k_fold \/ group_k_fold

SplitSpec == SplitInit /\ [][SplitNext]_vars

----------------------------------------------------------------------------
(* Claims about the fold generators                                        *)

Ids(frame) == { frame[i].id : i \in 1..Len(frame) }

NoRowTwice(frame) == \A i, j \in 1..Len(frame) : i # j => frame[i].id # frame[j].id

\* train and valid of one pair are disjoint and together hold every row of
\* the data frame exactly once.
PairPartitions(pair) ==
    /\ NoRowTwice(pair.train)
    /\ NoRowTwice(pair.valid)
    /\ Ids(pair.train) \cap Ids(pair.valid) = {}
    /\ Ids(pair.train) \cup Ids(pair.valid) = Ids(df)

\* The valid sets yielded so far are pairwise disjoint.
ValidsDisjoint ==
    \A i, j \in 1..Len(folds) : i # j => Ids(folds[i].valid) \cap Ids(folds[j].valid) = {}

\* Every row is a validation row of some fold.
ValidsCover == UNION { Ids(folds[i].valid) : i \in 1..Len(folds) } = Ids(df)

GroupsOf(frame) == { frame[i].group : i \in 1..Len(frame) }

\* C4: for N >= n_splits >= 2 rows, k_fold yields exactly n_splits pairs;
\* each pair's train and valid are disjoint and together hold every row
\* exactly once; the valid sets are pairwise disjoint and their union is the
\* whole data frame.
C4_KFoldPartitions ==
    (method = "k_fold" /\ n_splits >= 2 /\ Len(df) >= n_splits) =>
        /\ spc \in {"run", "done"}
        /\ Len(folds) <= n_splits
        /\ \A i \in 1..Len(folds) : PairPartitions(folds[i])
        /\ ValidsDisjoint
        /\ (spc = "done" => Len(folds) = n_splits /\ ValidsCover)

\* Witness of C4: k_fold ran to its end on a frame whose rows do not divide
\* evenly into the folds.
C4_Witness ==
    /\ method = "k_fold"
    /\ spc = "done"
    /\ n_splits = 2
    /\ Len(df) = 3
    /\ Len(folds) = 2

\* What C5 says of a finished run of group_k_fold.
GroupFoldsIntact ==
    /\ spc = "done"
    /\ Len(folds) = n_splits
    /\ \A i \in 1..Len(folds) :
          /\ GroupsOf(folds[i].train) \cap GroupsOf(folds[i].valid) = {}
          /\ PairPartitions(folds[i])
    /\ ValidsDisjoint
    /\ ValidsCover
    /\ \A g \in GroupsOf(df) :
          Cardinality({ i \in 1..Len(folds) : g \in GroupsOf(folds[i].valid) }) = 1

\* The pairs yielded so far keep groups intact and partition the rows.
GroupFoldsIntactSoFar ==
    /\ spc \in {"run", "done"}
    /\ Len(folds) <= n_splits
    /\ \A i \in 1..Len(folds) :
          /\ GroupsOf(folds[i].train) \cap GroupsOf(folds[i].valid) = {}
          /\ PairPartitions(folds[i])
    /\ ValidsDisjoint

\* C5 as stated: for any data frame whose group column has at least n_splits
\* distinct values, group_k_fold keeps groups intact, every row is in exactly
\* one of train and valid of each fold, and every group is in the valid set
\* of exactly one fold.
C5_AsStated ==
    (/\ method = "group_k_fold"
     /\ Cardinality(GroupsOf(df)) >= n_splits
     /\ spc \in {"done", "error"}) => GroupFoldsIntact

\* C5 amended: the same, for n_splits >= 2.
C5_GroupsIntact ==
    (/\ method = "group_k_fold"
     /\ n_splits >= 2
     /\ Cardinality(GroupsOf(df)) >= n_splits) =>
        /\ GroupFoldsIntactSoFar
        /\ (spc = "done" => GroupFoldsIntact)

\* Witness of C5: group_k_fold ran to its end on a frame in which a group
\* has several rows and the groups do not divide evenly into the folds.
C5_Witness ==
    /\ method = "group_k_fold"
    /\ spc = "done"
    /\ n_splits = 2
    /\ Cardinality(GroupsOf(df)) = 3
    /\ Len(df) = 4

----------------------------------------------------------------------------
(* ABSDataPostprocessor, ABSSubmitter, CodeSubmitter                       *)

\* How a call of a contract method ends: the subclass implements it and it
\* returns, the subclass's code fails, or the method is the base class's and
\* raises NotImplementedError (lines 71, 79, 102, 130, 142, 211).
ContractOutcomes == {"ok", "NotImplementedError", "Exception"}

\* How a call into a library (model, feature generator, tracker, notifier,
\* file system) ends.
LibraryOutcomes == {"ok", "Exception"}

\* Lines 295-303 and 317: self.submission_csv_dir is set by no class of the
\* module and self.api may be None, so the attribute access may fail.
ApiOutcomes == {"ok", "Exception", "AttributeError"}

OriginOf(kind) ==
    CASE kind = "NotImplementedError" -> "raise"
      [] kind = "ValueError"          -> "raise"
      [] kind = "TypeError"           -> "call"
      [] kind = "AttributeError"      -> "call"
      [] OTHER                        -> "external"

\* A variant of NameCheck that forgets experiment_name.
NameCheck_CompetitionOnly(n) ==
    IF n.competition_name = "" THEN "ValueError" ELSE "none"

\* Lines 189-192: the checks that open ABSSubmitter.__init__.
NameCheck(n) ==
    IF n.competition_name = "" THEN "ValueError"
    ELSE IF n.experiment_name = "" THEN "ValueError"
    ELSE "none"

\* Lines 305-314: _init_kaggle_api returns the API, or None on OSError.
InitKaggleApi(outcome) == IF outcome = "OSError" THEN "None" ELSE "KaggleApi"

\* Lines 279-284: the parameters of _train_and_evaluate after self.
TrainAndEvaluateParams == <<"train", "retrain_all_data", "save_model">>

\* The parameters without a default.
TrainAndEvaluateRequired == {"train"}

\* Lines 241-243 and 380: what each caller passes to _train_and_evaluate.
TrainAndEvaluateCall(o) ==
    IF o = "make_submission"
    THEN [positional |-> 1, keywords |-> {"retrain_all_data", "save_model"}]
    ELSE [positional |-> 0, keywords |-> {"features", "retrain_all_data"}]

\* Python's argument binding: every keyword names a parameter that no
\* positional argument has filled, and every required parameter is given.
Binds(params, required, call) ==
    LET byPosition == { params[i] : i \in 1..call.positional }
    IN  /\ call.positional <= Len(params)
        /\ call.keywords \subseteq Range(params)
        /\ call.keywords \cap byPosition = {}
        /\ required \subseteq (byPosition \cup call.keywords)

\* Lines 238-239 and 379-380: what follows process_data.
AfterProcessData(o) == IF o = "make_submission" THEN "split" ELSE "train_call"

\* A variant of AfterLoadFeatures whose uncached path starts at preprocess.
AfterLoadFeatures_NoFetch(c, o) == IF c THEN AfterProcessData(o) ELSE "preprocess"

\* Lines 262-266: process_data takes the cached features or runs the stages.
AfterLoadFeatures(c, o) == IF c THEN AfterProcessData(o) ELSE "fetch"

\* Lines 273-275: the order of _process_data.
AfterFetch == "preprocess"

AfterPreprocess == "feature_generate"

\* A variant of AfterValidate that records without submitting.
AfterValidate_NoSubmit(o, a) ==
    IF ~a.dry_run
    THEN IF a.return_only THEN "returned"
         ELSE IF o = "make_submission" THEN "public_score" ELSE "mlflow_run"
    ELSE "breakpoint"

\* A variant of AfterValidate that ignores return_only.
AfterValidate_IgnoresReturnOnly(o, a) ==
    IF ~a.dry_run
    THEN IF o = "make_submission" THEN "submit" ELSE "mlflow_run"
    ELSE "breakpoint"

\* Lines 247-259 and 381-388: the branch on dry_run and return_only that
\* follows validate_submit_data (make_submission) or training (experiment).
AfterValidate(o, a) ==
    IF ~a.dry_run
    THEN IF a.return_only THEN "returned"
         ELSE IF o = "make_submission" THEN "submit" ELSE "mlflow_run"
    ELSE "breakpoint"

\* Lines 244 and 381: what follows _train_and_evaluate.
AfterTrain(o, a) == IF o = "make_submission" THEN "estimate" ELSE AfterValidate(o, a)

\* Lines 287-292: cv, then fit when retrain_all_data.
AfterCv(o, a) == IF a.retrain_all_data THEN "fit" ELSE AfterTrain(o, a)

\* Lines 251-253: _submit, the sleep, then _save_experiment.
AfterSubmit == "public_score"

\* Lines 325-336 and 395-405: the order of _save_experiment.
AfterPublicScore == "mlflow_run"

AfterMlflowRun == "notify"

AfterNotify(o) == IF o = "make_submission" THEN "save_csv" ELSE "returned"

\* Lines 327 and 396: the public_score metric of the run.
PublicScoreMetric(o) == IF o = "make_submission" THEN "queried" ELSE "0.0"

\* Lines 249, 383 and the ends of the methods: the value returned.
ReturnValue(o, a) ==
    IF ~a.dry_run /\ a.return_only
    THEN (IF o = "make_submission" THEN "sub_res" ELSE "res")
    ELSE "None"

Finish(o, a, next) ==
    returned' = IF next = "returned" THEN ReturnValue(o, a) ELSE returned

Raise(stage, kind) ==
    /\ pc' = "error"
    /\ failedAt' = stage
    /\ errKind' = kind
    /\ errOrigin' = OriginOf(kind)
    /\ UNCHANGED <<log, returned>>

Proceed(stage, next) ==
    /\ pc' = next
    /\ log' = Append(log, stage)
    /\ Finish(op, args, next)
    /\ UNCHANGED <<failedAt, errKind, errOrigin>>

\* A stage that calls out: it returns and the run goes on, or it raises.
RunStage(stage, outcomes, next) ==
    /\ pc = stage
    /\ \E out \in outcomes :
          IF out = "ok" THEN Proceed(stage, next) ELSE Raise(stage, out)

Operations == {"postprocessor", "make_submission", "experiment"}

Arguments(o) ==
    IF o = "make_submission"
    THEN [dry_run : BOOLEAN, return_only : BOOLEAN,
          retrain_all_data : BOOLEAN, save_model : BOOLEAN]
    ELSE IF o = "experiment"
    THEN [dry_run : BOOLEAN, return_only : BOOLEAN,
          retrain_all_data : BOOLEAN, save_model : {TRUE}]
    ELSE {NoArgs}

Init ==
    /\ WatchIdle
    /\ SplitIdle
    /\ op \in Operations
    /\ names \in [competition_name : {"", "competition"},
                  experiment_name : {"", "experiment"}]
    /\ (op = "postprocessor" => names = [competition_name |-> "", experiment_name |-> ""])
    /\ args \in Arguments(op)
    /\ pc = (IF op = "postprocessor" THEN "postprocessor_init" ELSE "init")
    /\ cached = "unknown"
    /\ log = <<>>
    /\ failedAt = "none"
    /\ errKind = "none"
    /\ errOrigin = "none"
    /\ swallowed = {}
    /\ api = "unset"
    /\ run_public_score = "unset"
    /\ returned = "nothing"

\* Lines 96-99 and 113-119: ABSDataPostprocessor.__init__ and _init_dir.
PostprocessorInit ==
    /\ pc = "postprocessor_init"
    /\ \E save_dir \in BOOLEAN, exists \in BOOLEAN, makedirs \in {"ok", "OSError"} :
          swallowed' = IF save_dir /\ ~exists /\ makedirs = "OSError"
                       THEN swallowed \cup {"_init_dir"}
                       ELSE swallowed
    /\ Proceed("postprocessor_init", "returned")
    /\ UNCHANGED <<op, names, args, cached, api, run_public_score>>
    /\ UNCHANGED <<watchVars, splitVars>>

\* Lines 189-201 and 305-314: ABSSubmitter.__init__ and _init_kaggle_api.
SubmitterInit ==
    /\ pc = "init"
    /\ IF NameCheck(names) # "none"
       THEN /\ Raise("init", NameCheck(names))
            /\ UNCHANGED <<api, swallowed>>
       ELSE \E outcome \in {"ok", "OSError", "Exception"} :
               IF outcome = "Exception"
               THEN /\ Raise("init", "Exception")
                    /\ UNCHANGED <<api, swallowed>>
               ELSE /\ api' = InitKaggleApi(outcome)
                    /\ swallowed' = IF outcome = "OSError"
                                    THEN swallowed \cup {"_init_kaggle_api"}
                                    ELSE swallowed
                    /\ Proceed("init", "load_features")
    /\ UNCHANGED <<op, names, args, cached, run_public_score>>
    /\ UNCHANGED <<watchVars, splitVars>>

\* Lines 262-266: feature_generator._load_features().
LoadFeatures ==
    /\ pc = "load_features"
    /\ \E out \in LibraryOutcomes, c \in BOOLEAN :
          IF out = "ok"
          THEN /\ cached' = (IF c THEN "loaded" ELSE "not_loaded")
               /\ Proceed("load_features", AfterLoadFeatures(c, op))
          ELSE /\ Raise("load_features", out)
               /\ UNCHANGED cached
    /\ UNCHANGED <<op, names, args, swallowed, api, run_public_score>>
    /\ UNCHANGED <<watchVars, splitVars>>

\* Line 273: self.data_fetcher(dry_run=dry_run).
Fetch ==
    /\ RunStage("fetch", ContractOutcomes, AfterFetch)
    /\ UNCHANGED <<op, names, args, cached, swallowed, api, run_public_score>>
    /\ UNCHANGED <<watchVars, splitVars>>

\* Line 274: self.data_preprocessor(data).
Preprocess ==
    /\ RunStage("preprocess", ContractOutcomes, AfterPreprocess)
    /\ UNCHANGED <<op, names, args, cached, swallowed, api, run_public_score>>
    /\ UNCHANGED <<watchVars, splitVars>>

\* Lines 275 and 268-270: self.feature_generator(data), then the end of
\* process_data.
FeatureGenerate ==
    /\ RunStage("feature_generate", LibraryOutcomes, AfterProcessData(op))
    /\ UNCHANGED <<op, names, args, cached, swallowed, api, run_public_score>>
    /\ UNCHANGED <<watchVars, splitVars>>

\* Lines 239-243: self.data_splitter.train_test_split(data), then the call
\* of _train_and_evaluate.
Split ==
    /\ RunStage("split", ContractOutcomes, "train_call")
    /\ UNCHANGED <<op, names, args, cached, swallowed, api, run_public_score>>
    /\ UNCHANGED <<watchVars, splitVars>>

\* Lines 241-243 and 380: the arguments are bound to the parameters of
\* _train_and_evaluate; a keyword that names no parameter is a TypeError.
TrainCall ==
    /\ pc = "train_call"
    /\ IF Binds(TrainAndEvaluateParams, TrainAndEvaluateRequired, TrainAndEvaluateCall(op))
       THEN /\ pc' = "cv"
            /\ UNCHANGED <<log, failedAt, errKind, errOrigin, returned>>
       ELSE Raise("train_call", "TypeError")
    /\ UNCHANGED <<op, names, args, cached, swallowed, api, run_public_score>>
    /\ UNCHANGED <<watchVars, splitVars>>

\* Lines 285-289: cv_split and model.cv.
Cv ==
    /\ RunStage("cv", ContractOutcomes, AfterCv(op, args))
    /\ UNCHANGED <<op, names, args, cached, swallowed, api, run_public_score>>
    /\ UNCHANGED <<watchVars, splitVars>>

\* Lines 290-292: model.fit on all the training data.
Fit ==
    /\ RunStage("fit", LibraryOutcomes, AfterTrain(op, args))
    /\ UNCHANGED <<op, names, args, cached, swallowed, api, run_public_score>>
    /\ UNCHANGED <<watchVars, splitVars>>

\* Lines 203-208 and 244: get_submit_data.
Estimate ==
    /\ RunStage("estimate", LibraryOutcomes, "validate")
    /\ UNCHANGED <<op, names, args, cached, swallowed, api, run_public_score>>
    /\ UNCHANGED <<watchVars, splitVars>>

\* Lines 210-211 and 245-259: validate_submit_data, then the branch.
Validate ==
    /\ RunStage("validate", ContractOutcomes, AfterValidate(op, args))
    /\ UNCHANGED <<op, names, args, cached, swallowed, api, run_public_score>>
    /\ UNCHANGED <<watchVars, splitVars>>

\* Lines 294-303 and 252: _submit, which ends with api.competition_submit,
\* then time.sleep(15). With self.api None the call cannot be made.
Submit ==
    /\ RunStage("submit",
                IF api = "None" THEN ApiOutcomes \ {"ok"} ELSE ApiOutcomes,
                AfterSubmit)
    /\ UNCHANGED <<op, names, args, cached, swallowed, api, run_public_score>>
    /\ UNCHANGED <<watchVars, splitVars>>

\* Lines 316-322 and 325: _get_public_score.
PublicScore ==
    /\ RunStage("public_score", LibraryOutcomes, AfterPublicScore)
    /\ UNCHANGED <<op, names, args, cached, swallowed, api, run_public_score>>
    /\ UNCHANGED <<watchVars, splitVars>>

\* Lines 326-334 and 395-403: get_metrics and mlflow.run.
MlflowRun ==
    /\ pc = "mlflow_run"
    /\ \E out \in LibraryOutcomes :
          IF out = "ok"
          THEN /\ run_public_score' = PublicScoreMetric(op)
               /\ Proceed("mlflow_run", AfterMlflowRun)
          ELSE /\ Raise("mlflow_run", out)
               /\ UNCHANGED run_public_score
    /\ UNCHANGED <<op, names, args, cached, swallowed, api>>
    /\ UNCHANGED <<watchVars, splitVars>>

\* Lines 335-336 and 404-405: slack_notify.
Notify ==
    /\ RunStage("notify", LibraryOutcomes, AfterNotify(op))
    /\ UNCHANGED <<op, names, args, cached, swallowed, api, run_public_score>>
    /\ UNCHANGED <<watchVars, splitVars>>

\* Lines 337-344: the submission is written under the artifact directory.
SaveCsv ==
    /\ RunStage("save_csv", LibraryOutcomes, "returned")
    /\ UNCHANGED <<op, names, args, cached, swallowed, api, run_public_score>>
    /\ UNCHANGED <<watchVars, splitVars>>

\* Lines 259 and 388: breakpoint() of a dry run.
Breakpoint ==
    /\ RunStage("breakpoint", {"ok"}, "returned")
    /\ UNCHANGED <<op, names, args, cached, swallowed, api, run_public_score>>
    /\ UNCHANGED <<watchVars, splitVars>>

Next ==
    \/ PostprocessorInit
    \/ SubmitterInit
    \/ LoadFeatures
    \/ Fetch
    \/ Preprocess
    \/ FeatureGenerate
    \/ Split
    \/ TrainCall
    \/ Cv
    \/ Fit
    \/ Estimate
    \/ Validate
    \/ Submit
    \/ PublicScore
    \/ MlflowRun
    \/ Notify
    \/ SaveCsv
    \/ Breakpoint

Spec == Init /\ [][Next]_vars

----------------------------------------------------------------------------
(* Claims about the pipelines and the constructors                         *)

Finished(stage) == stage \in Range(log)

\* The stage was entered: it finished, or it is the one that raised.
Ran(stage) == Finished(stage) \/ failedAt = stage

Pos(stage) == CHOOSE i \in 1..Len(log) : log[i] = stage

Times(stage) ==
    Cardinality({ i \in 1..Len(log) : log[i] = stage })
        + (IF failedAt = stage THEN 1 ELSE 0)

\* a ran and finished before b was entered.
Before(a, b) == Finished(a) /\ (Finished(b) => Pos(a) < Pos(b))

\* The stages of the pipeline in the order the specification lists them;
\* "cv" is the start of the train stage, "fit" its optional second half.
PipelineStages == <<"fetch", "preprocess", "feature_generate", "split", "cv", "submit">>

InOrderFrom(first) ==
    \A i \in first..Len(PipelineStages) :
        Ran(PipelineStages[i]) =>
            \A j \in first..(i - 1) : Before(PipelineStages[j], PipelineStages[i])

OncePerRun ==
    /\ \A i \in 1..Len(PipelineStages) : Times(PipelineStages[i]) <= 1
    /\ Times("fit") <= 1
    /\ (Ran("fit") => Before("cv", "fit"))
    /\ (Ran("fit") /\ Ran("submit") => Before("fit", "submit"))

\* C1 as stated: every run of make_submission runs each stage at most once,
\* and whenever a stage runs every stage listed before it has run and
\* finished in that run.
C1_AsStated ==
    op = "make_submission" => OncePerRun /\ InOrderFrom(1)

\* C1 amended: the same when the feature generator has no cached features;
\* when it loads cached features, fetch, preprocess and feature-generate do
\* not run at all and split, train, submit run in that order.
C1_PipelineOrder ==
    op = "make_submission" =>
        /\ OncePerRun
        /\ (cached # "loaded" => InOrderFrom(1))
        /\ (cached = "loaded" =>
               /\ ~Ran("fetch") /\ ~Ran("preprocess") /\ ~Ran("feature_generate")
               /\ InOrderFrom(4))
        /\ (Ran("split") => cached # "unknown")

\* Witness of C1: a run on cached features went through to the submission.
C1_Witness ==
    /\ op = "make_submission"
    /\ cached = "loaded"
    /\ Finished("fit")
    /\ Finished("submit")

\* C3 as stated: the only error the module's own code raises is
\* NotImplementedError, and the only place that swallows an error is
\* _init_dir.
C3_AsStated ==
    /\ (errOrigin = "raise" => errKind = "NotImplementedError")
    /\ swallowed \subseteq {"_init_dir"}

ContractStages == {"fetch", "preprocess", "split", "cv", "validate"}

\* C3 amended: the module's raise statements raise NotImplementedError (the
\* contract methods) and ValueError (ABSSubmitter.__init__, exactly when
\* competition_name or experiment_name is empty); an error is swallowed in
\* _init_dir and in _init_kaggle_api (OSError, self.api becomes None), and
\* in no other operation.
C3_RaisedAndSwallowed ==
    /\ (errOrigin = "raise" => errKind \in {"NotImplementedError", "ValueError"})
    /\ (errKind = "NotImplementedError" => failedAt \in ContractStages)
    /\ (errKind = "ValueError" =>
           /\ failedAt = "init"
           /\ (names.competition_name = "" \/ names.experiment_name = ""))
    /\ (Finished("init") =>
           names.competition_name # "" /\ names.experiment_name # "")
    /\ swallowed \subseteq {"_init_dir", "_init_kaggle_api"}
    /\ ("_init_kaggle_api" \in swallowed <=> api = "None")
    /\ ("_init_dir" \in swallowed => op = "postprocessor" /\ pc = "returned")
    /\ ("_init_kaggle_api" \in swallowed => Finished("init"))

\* Witness of C3: a submitter whose API initialisation swallowed an OSError
\* later ended on an unimplemented contract method.
C3_Witness ==
    /\ "_init_kaggle_api" \in swallowed
    /\ errKind = "NotImplementedError"
    /\ errOrigin = "raise"

\* A second case of C3: the constructor refused an empty experiment_name.
C3_WitnessValueError ==
    /\ errKind = "ValueError"
    /\ names.competition_name # ""

RecordStages == {"public_score", "mlflow_run", "notify"}

\* C6: make_submission with dry_run=False and return_only=False submits and
\* then records: the submit call comes only after validate_submit_data has
\* returned; the public-score query, the run registration and the
\* notification come, in that order, only after the submit call has
\* returned; if validate_submit_data or the submit call raises, nothing is
\* recorded or notified; a run that returns has done all of them.
C6_SubmitThenRecord ==
    (op = "make_submission" /\ ~args.dry_run /\ ~args.return_only) =>
        /\ (Ran("submit") => Before("validate", "submit"))
        /\ \A s \in RecordStages : Ran(s) => Before("submit", s)
        /\ (Ran("mlflow_run") => Before("public_score", "mlflow_run"))
        /\ (Ran("notify") => Before("mlflow_run", "notify"))
        /\ (failedAt \in {"validate", "submit"} => \A s \in RecordStages : ~Ran(s))
        /\ (pc = "returned" => Finished("submit") /\ \A s \in RecordStages : Finished(s))

\* Witness of C6: the run submitted, recorded and returned.
C6_Witness ==
    /\ op = "make_submission"
    /\ ~args.dry_run /\ ~args.return_only
    /\ pc = "returned"
    /\ Finished("submit")
    /\ Finished("notify")

\* A second case of C6: the submit call raised and the run ended there.
C6_WitnessSubmitRaised ==
    /\ op = "make_submission"
    /\ failedAt = "submit"
    /\ Finished("validate")

\* C7, as stated: a run of CodeSubmitter.experiment in which no library and
\* no contract method fails processes the data and trains; with
\* dry_run=False and return_only=True it returns the cross-validation result
\* and records nothing; with dry_run=False and return_only=False it
\* registers exactly one run, with public_score 0.0, and sends one
\* notification; it never calls the submit API nor queries the public score.
C7_AsStated ==
    (op = "experiment" /\ pc \in {"returned", "error"} /\ Finished("init")
        /\ errOrigin \in {"none", "call"}) =>
        /\ pc = "returned"
        /\ Finished("load_features")
        /\ Finished("cv")
        /\ ~Ran("submit") /\ ~Ran("public_score")
        /\ (~args.dry_run /\ args.return_only =>
               returned = "res" /\ ~Ran("mlflow_run") /\ ~Ran("notify"))
        /\ (~args.dry_run /\ ~args.return_only =>
               /\ Times("mlflow_run") = 1
               /\ run_public_score = "0.0"
               /\ Times("notify") = 1)

SideEffectStages == {"submit", "public_score", "mlflow_run", "notify"}

\* C8: in make_submission with dry_run=True or return_only=True, whatever the
\* other arguments, the submit API is not called, the public score is not
\* queried, no run is registered and no notification is sent.
C8_NoSideEffects ==
    (op = "make_submission" /\ (args.dry_run \/ args.return_only)) =>
        \A s \in SideEffectStages : ~Ran(s)

\* Witness of C8: a return_only run got past validate_submit_data and
\* returned the submission and the result.
C8_Witness ==
    /\ op = "make_submission"
    /\ args.return_only /\ ~args.dry_run
    /\ Finished("validate")
    /\ pc = "returned"
    /\ returned = "sub_res"

\* A second case of C8: a dry run ended in the breakpoint.
C8_WitnessDryRun ==
    /\ op = "make_submission"
    /\ args.dry_run
    /\ Finished("breakpoint")
    /\ pc = "returned"

====
